---- MODULE Spec2Model ----
(***************************************************************************)
(* Model of terrace_extractor.py: one run of main(), from read_image to    *)
(* write_vectors.                                                          *)
(*                                                                         *)
(* World coordinates, pixel sizes and lengths are fixed-point numbers in   *)
(* tenths of a unit (0.3 is 3, 5.0 is 50, 500000 is 5000000), so that the  *)
(* float arithmetic of the source is exact integer arithmetic here.        *)
(* Python's None is the string "None" for a CRS / EPSG code and the        *)
(* all-zero record NoTransform for an affine transform.                    *)
(***************************************************************************)
EXTENDS Integers, Sequences, FiniteSets

VARIABLES
    status,          \* "running", "done" or "failed" (an exception unwound main)
    pc,              \* index into main_order of the next statement of main
    raised,          \* the call that raised, "None" while none did
    trace,           \* the calls of main completed or attempted so far, in order
    rasterio_ok,     \* whether `import rasterio` succeeds (_try_import_rasterio)
    out_dir_exists,  \* whether args.out is a directory on disk
    file,            \* the input file args.image
    args,            \* the parsed arguments main has read so far
    geo,             \* (transform, crs) as main holds them after line 121
    edges_bin,       \* edge mask, a 0/1 value per pixel
    skel,            \* skeleton mask, a 0/1 value per pixel
    contours,        \* what cv2.findContours returned inside vectorize_skeleton
    vec_path_taken,  \* "geo" or "fallback": the branch vectorize_skeleton took
    gdf_vec,         \* the GeoDataFrame returned by vectorize_skeleton
    gdf_proj,        \* the GeoDataFrame after line 87 (reprojected, or as given)
    gdf,             \* the GeoDataFrame returned by filter_by_length
    raster_writes,   \* the raster write attempts of save_binary, in order
    vector_writes    \* the vector files written by write_vectors

vars == <<status, pc, raised, trace, rasterio_ok, out_dir_exists, file, args, geo,
          edges_bin, skel, contours, vec_path_taken, gdf_vec, gdf_proj, gdf,
          raster_writes, vector_writes>>

----------------------------------------------------------------------------
(* Bounds of the model *)

\* width and height of the image, in pixels
GridW == 13
GridH == 21
\* the longest diagonal skeleton line, from (0,0) to (MaxDiag, MaxDiag)
MaxDiag == 3

Grid == (0 .. GridW - 1) \X (0 .. GridH - 1)

----------------------------------------------------------------------------
(* Values *)

NoTransform == [a |-> 0, b |-> 0, c |-> 0, d |-> 0, e |-> 0, f |-> 0]

\* affine transforms a georeferenced file may carry (tenths of a unit)
Transforms ==
    { [a |-> 3, b |-> 0, c |-> 5000000, d |-> 0, e |-> -3, f |-> 40000000],
      [a |-> 3, b |-> 1, c |-> 5000000, d |-> 2, e |-> -3, f |-> 40000000],
      [a |-> 10, b |-> 0, c |-> 0, d |-> 0, e |-> -20, f |-> 70] }

GeographicCRS == {"EPSG:4326"}
ProjectedCRS == {"EPSG:32633", "EPSG:3857"}

\* crs.is_geographic
is_geographic(crs) == crs \in GeographicCRS

EmptyGdf == [geometry |-> <<>>, crs |-> "None"]
EmptyMask == [p \in Grid |-> 0]

\* the argparse defaults of main
default_pixel_size == 3
default_min_length == 50
ArgDefaults ==
    [epsg |-> "None", pixel_size |-> default_pixel_size, origin_xy |-> <<0, 0>>,
     min_length |-> default_min_length, project_epsg |-> "None", as_gpkg |-> FALSE]

\* the input files: missing, a plain image, or a GeoTIFF with its metadata
Files ==
    { [exists |-> FALSE, ext |-> e, transform |-> NoTransform, crs |-> "None"]
        : e \in {".png", ".tif"} }
    \cup { [exists |-> TRUE, ext |-> ".png", transform |-> NoTransform, crs |-> "None"] }
    \cup { [exists |-> TRUE, ext |-> ".tif", transform |-> t, crs |-> c]
             : t \in Transforms, c \in {"None", "EPSG:4326", "EPSG:32633"} }

----------------------------------------------------------------------------
(* Contours: what cv2.findContours can return for a skeleton mask *)

Diag(n) == [i \in 1 .. n + 1 |-> <<i - 1, i - 1>>]
\* the closed border of a one-pixel-wide line: out to the end and back
DiagLoop(n) == [i \in 1 .. 2 * n |-> IF i <= n + 1 THEN <<i - 1, i - 1>>
                                                   ELSE <<2 * n + 1 - i, 2 * n + 1 - i>>]
Single == << <<5, 6>> >>
Horiz == << <<10, 20>>, <<11, 20>>, <<12, 20>> >>

ContourLists ==
    { <<>>, <<Single>>, <<Horiz>>, <<Single, Horiz>>, <<Horiz, Single>> }
    \cup { <<Diag(n)>> : n \in 1 .. MaxDiag }
    \cup { <<DiagLoop(n)>> : n \in 2 .. MaxDiag }
    \cup { <<Horiz, Diag(n), Single>> : n \in 1 .. MaxDiag }

PixelsOf(cl) == UNION { { cl[i][j] : j \in DOMAIN cl[i] } : i \in DOMAIN cl }

\* pixels Canny marks as edges that thinning removes from the skeleton
ThinnedAway == { {}, { <<1, 0>>, <<11, 19>> } }

MaskOf(S) == [p \in Grid |-> IF p \in S THEN 1 ELSE 0]

----------------------------------------------------------------------------
(* read_image, lines 24-41, and main's unpacking, lines 119-121 *)

read_image(rio, f) ==
    IF rio /\ f.ext \in {".tif", ".tiff"}
    THEN IF f.exists
         THEN [raised |-> FALSE, transform |-> f.transform, crs |-> f.crs]
         ELSE [raised |-> TRUE, transform |-> NoTransform, crs |-> "None"]
    ELSE IF f.exists
         THEN [raised |-> FALSE, transform |-> NoTransform, crs |-> "None"]
         ELSE [raised |-> TRUE, transform |-> NoTransform, crs |-> "None"]

----------------------------------------------------------------------------
(* save_binary, lines 43-51 *)

\* line 45 with the crs test forgotten
use_plain_image_no_crs_test(rio, transform, crs) ==
    ~rio \/ transform = NoTransform

\* line 45: the plain-image branch
use_plain_image(rio, transform, crs) ==
    ~rio \/ transform = NoTransform \/ crs = "None"

\* out_path.replace(".tif", ".png") for the two paths main passes
replace_tif_png(out_path) ==
    CASE out_path = "terrace_edges.tif" -> "terrace_edges.png"
      [] out_path = "terrace_skeleton.tif" -> "terrace_skeleton.png"
      [] OTHER -> out_path

\* binary.astype(np.uint8)
astype_uint8(binary) == [p \in Grid |-> binary[p] % 256]

\* the write save_binary attempts: cv2.imwrite returns False when the directory
\* is missing, rasterio.open raises
save_binary(binary, out_path, transform, crs, rio, dir_exists) ==
    IF use_plain_image(rio, transform, crs)
    THEN [raised |-> FALSE,
          write |-> [path |-> replace_tif_png(out_path), fmt |-> "plain",
                     pixels |-> [p \in Grid |-> (astype_uint8(binary)[p] * 255) % 256],
                     dir_existed |-> dir_exists, ok |-> dir_exists]]
    ELSE [raised |-> ~dir_exists,
          write |-> [path |-> out_path, fmt |-> "GTiff",
                     pixels |-> astype_uint8(binary),
                     dir_existed |-> dir_exists, ok |-> dir_exists]]

----------------------------------------------------------------------------
(* vectorize_skeleton, lines 60-83 *)

\* shapely's LineString(pts) raises for a single coordinate tuple
LineString_raises(pts) == Len(pts) = 1

\* line 68 with the full affine map, rotation terms included
geo_point_full_affine(p, t) ==
    <<t.c + p[1] * t.a + p[2] * t.b, t.f + p[1] * t.d + p[2] * t.e>>

\* line 68: one pixel (col, row) on the georeferenced path
geo_point(p, t) == <<t.c + p[1] * t.a, t.f + p[2] * t.e>>

\* line 77 without the flip of the row axis
fallback_point_no_flip(p, x0, y0, pixel_size) ==
    <<x0 + p[1] * pixel_size, y0 + p[2] * pixel_size>>

\* line 77: one pixel (col, row) on the fallback path
fallback_point(p, x0, y0, pixel_size) ==
    <<x0 + p[1] * pixel_size, y0 - p[2] * pixel_size>>

\* lines 67-70 / 76-79 with neither the length test nor the try/except:
\* every contour is appended
contour_lines_unguarded(pts) == <<pts>>

\* lines 67-70 / 76-79: what one contour, already mapped, adds to `lines`
contour_lines(pts) ==
    IF Len(pts) < 2 THEN <<>>
    ELSE IF LineString_raises(pts) THEN <<>>
    ELSE <<pts>>

\* lines 66-70
RECURSIVE geo_lines(_, _)
geo_lines(cnts, t) ==
    IF cnts = <<>> THEN <<>>
    ELSE contour_lines([i \in DOMAIN Head(cnts) |-> geo_point(Head(cnts)[i], t)])
         \o geo_lines(Tail(cnts), t)

\* lines 75-79
RECURSIVE fallback_lines(_, _, _, _)
fallback_lines(cnts, x0, y0, pixel_size) ==
    IF cnts = <<>> THEN <<>>
    ELSE contour_lines([i \in DOMAIN Head(cnts) |->
                           fallback_point(Head(cnts)[i], x0, y0, pixel_size)])
         \o fallback_lines(Tail(cnts), x0, y0, pixel_size)

\* lines 63-83; cnts is what cv2.findContours returned at line 62
vectorize_skeleton(cnts, pixel_size, transform, crs, epsg, origin_xy) ==
    IF transform /= NoTransform /\ crs /= "None"
    THEN [branch |-> "geo",
          gdf |-> [geometry |-> geo_lines(cnts, transform), crs |-> crs]]
    ELSE [branch |-> "fallback",
          gdf |-> [geometry |-> fallback_lines(cnts, origin_xy[1], origin_xy[2], pixel_size),
                   crs |-> epsg]]

----------------------------------------------------------------------------
(* filter_by_length, lines 85-90 *)

Abs(x) == IF x < 0 THEN -x ELSE x

\* the part of a line's length made of its axis-parallel segments
RECURSIVE AxisLength(_)
AxisLength(g) ==
    IF Len(g) < 2 THEN 0
    ELSE LET dx == Abs(g[2][1] - g[1][1])
             dy == Abs(g[2][2] - g[1][2])
         IN  (IF dx = 0 \/ dy = 0 THEN dx + dy ELSE 0) + AxisLength(Tail(g))

Oblique(g) == { i \in 1 .. Len(g) - 1 :
                  g[i + 1][1] /= g[i][1] /\ g[i + 1][2] /= g[i][2] }

SegSq(g, i) == (g[i + 1][1] - g[i][1]) * (g[i + 1][1] - g[i][1])
               + (g[i + 1][2] - g[i][2]) * (g[i + 1][2] - g[i][2])

\* the squared length of the oblique segments of a line traced on a pixel grid
\* (they all have the same length: one diagonal step)
ObliqueSq(g) == IF Oblique(g) = {} THEN 0
                ELSE SegSq(g, CHOOSE i \in Oblique(g) : TRUE)

\* length(g) >= m, where length(g) = AxisLength(g) + n * sqrt(ObliqueSq(g)),
\* decided exactly in integers
length_ge(g, m) ==
    LET n == Cardinality(Oblique(g))
        r == m - AxisLength(g)
    IN  r <= 0 \/ n * n * ObliqueSq(g) >= r * r

\* length(g) > m
length_gt(g, m) ==
    LET n == Cardinality(Oblique(g))
        r == m - AxisLength(g)
    IN  r < 0 \/ (n * n * ObliqueSq(g) > r * r)

\* GeoDataFrame.to_crs moves every coordinate into the target system and keeps
\* the number and order of the points; the map per target stands for pyproj's
reproject_point(p, src, dst) ==
    IF src = dst THEN p
    ELSE CASE dst = "EPSG:4326"  -> <<p[1] + 1800, p[2] + 900>>
           [] dst = "EPSG:32633" -> <<2 * p[1], 2 * p[2]>>
           [] OTHER              -> <<3 * p[1] + 7, 3 * p[2]>>

\* line 87: gdf.to_crs(project_epsg) raises ValueError on a frame with no crs
to_crs(g, epsg) ==
    IF g.crs = "None"
    THEN [raised |-> TRUE, gdf |-> g]
    ELSE [raised |-> FALSE,
          gdf |-> [geometry |->
                     [k \in DOMAIN g.geometry |->
                        [i \in DOMAIN g.geometry[k] |->
                           reproject_point(g.geometry[k][i], g.crs, epsg)]],
                   crs |-> epsg]]

\* line 88 testing only for a missing crs
skips_filter_unset_only(crs) == crs = "None"

\* line 88
skips_filter(crs) == crs = "None" \/ is_geographic(crs)

\* line 90 with > for >=
keeps_strictly_longer(g, min_length_m) == length_gt(g, min_length_m)

\* line 90: gdf.geometry.length >= min_length_m, per geometry
keeps(g, min_length_m) == length_ge(g, min_length_m)

filter_by_length(g, min_length_m, project_epsg) ==
    LET r == IF project_epsg /= "None" THEN to_crs(g, project_epsg)
                                       ELSE [raised |-> FALSE, gdf |-> g]
    IN  IF r.raised THEN [raised |-> TRUE, proj |-> g, out |-> g]
        ELSE IF skips_filter(r.gdf.crs)
        THEN [raised |-> FALSE, proj |-> r.gdf, out |-> r.gdf]
        ELSE [raised |-> FALSE, proj |-> r.gdf,
              out |-> [geometry |-> SelectSeq(r.gdf.geometry,
                                              LAMBDA x : keeps(x, min_length_m)),
                       crs |-> r.gdf.crs]]

----------------------------------------------------------------------------
(* write_vectors, lines 92-101 *)

\* line 93: out_dir.mkdir(parents=True, exist_ok=True); the directory exists after it
mkdir_exist_ok(dir_exists) == TRUE

write_vectors(g, as_gpkg, dir_exists) ==
    LET dir_after == mkdir_exist_ok(dir_exists)
    IN  IF as_gpkg
        THEN [path |-> "terrace_lines.gpkg", layer |-> "terraces", driver |-> "GPKG",
              gdf |-> g, dir_existed |-> dir_after]
        ELSE [path |-> "terrace_lines.shp", layer |-> "None", driver |-> "default",
              gdf |-> g, dir_existed |-> dir_after]

----------------------------------------------------------------------------
(* main, lines 119-135 *)

\* the statements of main with vectorization and filtering exchanged
main_order_filter_first ==
    << "read_image", "canny_and_skeleton", "save_binary_edges", "save_binary_skel",
       "filter_by_length", "vectorize_skeleton", "write_vectors" >>

\* the statements of main in program order: lines 119, 123, 124, 125, 127-130, 132, 133
main_order ==
    << "read_image", "canny_and_skeleton", "save_binary_edges", "save_binary_skel",
       "vectorize_skeleton", "filter_by_length", "write_vectors" >>

At(stmt) == status = "running" /\ pc <= Len(main_order) /\ main_order[pc] = stmt

\* the statement returned: main goes on to the next one, or returns after the last
Advance(stmt) ==
    /\ trace' = Append(trace, stmt)
    /\ pc' = pc + 1
    /\ status' = IF pc + 1 > Len(main_order) THEN "done" ELSE "running"
    /\ raised' = raised

\* the statement raised: the exception unwinds main
Raise(stmt) ==
    /\ trace' = Append(trace, stmt)
    /\ pc' = pc
    /\ status' = "failed"
    /\ raised' = stmt

Init ==
    /\ status = "running"
    /\ pc = 1
    /\ raised = "None"
    /\ trace = <<>>
    /\ rasterio_ok \in BOOLEAN
    /\ out_dir_exists \in BOOLEAN
    /\ file \in Files
    /\ args = ArgDefaults
    /\ geo = [transform |-> NoTransform, crs |-> "None"]
    /\ edges_bin = EmptyMask
    /\ skel = EmptyMask
    /\ contours = <<>>
    /\ vec_path_taken = "None"
    /\ gdf_vec = EmptyGdf
    /\ gdf_proj = EmptyGdf
    /\ gdf = EmptyGdf
    /\ raster_writes = <<>>
    /\ vector_writes = <<>>

\* lines 119-121
ReadImage ==
    /\ At("read_image")
    /\ LET r == read_image(rasterio_ok, file)
       IN  IF r.raised
           THEN Raise("read_image") /\ UNCHANGED geo
           ELSE Advance("read_image")
                /\ geo' = [transform |-> r.transform, crs |-> r.crs]
    /\ UNCHANGED <<rasterio_ok, out_dir_exists, file, args, edges_bin, skel, contours,
                   vec_path_taken, gdf_vec, gdf_proj, gdf, raster_writes, vector_writes>>

\* line 123: Canny and skeletonize are the libraries'; the skeleton is any of the
\* traced shapes and the edge mask holds it plus what thinning removed
CannyAndSkeleton ==
    /\ At("canny_and_skeleton")
    /\ \E cl \in ContourLists, extra \in ThinnedAway :
          /\ skel' = MaskOf(PixelsOf(cl))
          /\ edges_bin' = MaskOf(PixelsOf(cl) \cup extra)
    /\ Advance("canny_and_skeleton")
    /\ UNCHANGED <<rasterio_ok, out_dir_exists, file, args, geo, contours,
                   vec_path_taken, gdf_vec, gdf_proj, gdf, raster_writes, vector_writes>>

SaveBinary(stmt, binary, out_path) ==
    /\ At(stmt)
    /\ LET r == save_binary(binary, out_path, geo.transform, geo.crs,
                            rasterio_ok, out_dir_exists)
       IN  /\ raster_writes' = Append(raster_writes, r.write)
           /\ IF r.raised THEN Raise(stmt) ELSE Advance(stmt)
    /\ UNCHANGED <<rasterio_ok, out_dir_exists, file, args, geo, edges_bin, skel,
                   contours, vec_path_taken, gdf_vec, gdf_proj, gdf, vector_writes>>

\* line 124
SaveBinaryEdges == SaveBinary("save_binary_edges", edges_bin, "terrace_edges.tif")

\* line 125
SaveBinarySkel == SaveBinary("save_binary_skel", skel, "terrace_skeleton.tif")

\* lines 127-130; the fallback arguments are read on the fallback branch only
VectorizeSkeleton ==
    /\ At("vectorize_skeleton")
    /\ \E cl \in ContourLists :
          /\ MaskOf(PixelsOf(cl)) = skel
          /\ contours' = cl
          /\ IF geo.transform /= NoTransform /\ geo.crs /= "None"
             THEN LET r == vectorize_skeleton(cl, args.pixel_size, geo.transform,
                                              geo.crs, "None", <<0, 0>>)
                  IN  /\ gdf_vec' = r.gdf
                      /\ vec_path_taken' = r.branch
                      /\ args' = args
             ELSE \E ps \in {3, 10}, ep \in {"None", "EPSG:4326", "EPSG:32633"},
                     o \in {<<0, 0>>, <<1000, -2000>>} :
                    LET r == vectorize_skeleton(cl, ps, NoTransform, "None", ep, o)
                    IN  /\ gdf_vec' = r.gdf
                        /\ vec_path_taken' = r.branch
                        /\ args' = [args EXCEPT !.pixel_size = ps, !.epsg = ep,
                                                !.origin_xy = o]
    /\ Advance("vectorize_skeleton")
    /\ UNCHANGED <<rasterio_ok, out_dir_exists, file, geo, edges_bin, skel,
                   gdf_proj, gdf, raster_writes, vector_writes>>

\* line 132
FilterByLength ==
    /\ At("filter_by_length")
    /\ \E m \in {6, 50}, pe \in {"None", "EPSG:4326", "EPSG:32633", "EPSG:3857"} :
          LET r == filter_by_length(gdf_vec, m, pe)
          IN  /\ args' = [args EXCEPT !.min_length = m, !.project_epsg = pe]
              /\ gdf_proj' = r.proj
              /\ gdf' = r.out
              /\ IF r.raised THEN Raise("filter_by_length")
                             ELSE Advance("filter_by_length")
    /\ UNCHANGED <<rasterio_ok, out_dir_exists, file, geo, edges_bin, skel, contours,
                   vec_path_taken, gdf_vec, raster_writes, vector_writes>>

\* lines 133-135
WriteVectors ==
    /\ At("write_vectors")
    /\ \E g \in BOOLEAN :
          /\ args' = [args EXCEPT !.as_gpkg = g]
          /\ out_dir_exists' = mkdir_exist_ok(out_dir_exists)
          /\ vector_writes' = Append(vector_writes,
                                     write_vectors(gdf, g, out_dir_exists))
    /\ Advance("write_vectors")
    /\ UNCHANGED <<rasterio_ok, file, geo, edges_bin, skel, contours,
                   vec_path_taken, gdf_vec, gdf_proj, gdf, raster_writes>>

Next ==
    \/ ReadImage
    \/ CannyAndSkeleton
    \/ SaveBinaryEdges
    \/ SaveBinarySkel
    \/ VectorizeSkeleton
    \/ FilterByLength
    \/ WriteVectors

Spec == Init /\ [][Next]_vars

----------------------------------------------------------------------------
(* Auxiliary predicates of the properties *)

\* stmt was called and returned
Completed(stmt) == (\E i \in DOMAIN trace : trace[i] = stmt) /\ raised /= stmt

\* stmt was called (and returned or raised)
Called(stmt) == \E i \in DOMAIN trace : trace[i] = stmt

IsPrefix(s, t) == Len(s) <= Len(t) /\ \A i \in DOMAIN s : s[i] = t[i]

\* the contours that have at least two vertices, in traced order
TwoOrMore(cnts) == SelectSeq(cnts, LAMBDA c : Len(c) >= 2)

\* the mask a raster write was given
MaskWritten(w) ==
    IF w.path \in {"terrace_edges.tif", "terrace_edges.png"} THEN edges_bin ELSE skel

\* the crs the filter sees after its optional reprojection
CrsAfterReprojection ==
    IF args.project_epsg = "None" THEN gdf_vec.crs ELSE args.project_epsg

\* the k-th index, in increasing order, of the set I of indices
Kth(I, k) == CHOOSE i \in I : Cardinality({ j \in I : j <= i }) = k

\* every oblique segment of every geometry has the same length, so that
\* length_ge decides the comparison exactly
ObliqueUniform ==
    \A g \in { gdf_vec, gdf_proj, gdf } : \A k \in DOMAIN g.geometry :
        \A i, j \in Oblique(g.geometry[k]) :
            SegSq(g.geometry[k], i) = SegSq(g.geometry[k], j)

----------------------------------------------------------------------------
(* Properties *)

\* C1: every write into the output directory (edge mask, skeleton mask, vector
\* file) is attempted in a state where the directory has been created. The code
\* violates it: save_binary writes before write_vectors creates the directory.
C1_DirCreatedBeforeAnyWrite ==
    /\ \A i \in DOMAIN raster_writes : raster_writes[i].dir_existed
    /\ \A i \in DOMAIN vector_writes : vector_writes[i].dir_existed

\* C2: every mask raster written by save_binary, on the georeferenced and on the
\* plain path, has only the values 0 and 255, and every foreground pixel is 255.
\* The code violates it on the georeferenced path, which writes 0/1.
C2_MasksWritten0And255 ==
    \A i \in DOMAIN raster_writes :
        LET w == raster_writes[i] IN
        w.ok => \A p \in Grid :
                   /\ w.pixels[p] \in {0, 255}
                   /\ MaskWritten(w)[p] = 1 => w.pixels[p] = 255

\* C3: when filter_by_length returns and the crs after the optional reprojection
\* is geographic or unset, the result is the (reprojected) collection unchanged:
\* same geometries, same order, same points, whatever min_length is.
C3_GeographicOrUnsetPassesUnchanged ==
    (Completed("filter_by_length")
       /\ (CrsAfterReprojection = "None" \/ CrsAfterReprojection \in GeographicCRS))
    => /\ gdf.crs = CrsAfterReprojection
       /\ gdf.geometry =
            IF args.project_epsg = "None" THEN gdf_vec.geometry
            ELSE [k \in DOMAIN gdf_vec.geometry |->
                    [i \in DOMAIN gdf_vec.geometry[k] |->
                       reproject_point(gdf_vec.geometry[k][i], gdf_vec.crs,
                                       args.project_epsg)]]

\* C3 witness: a geographic collection reprojected from a projected one, none of
\* whose geometries reaches min_length, came back from the filter with all of them
C3_Witness ==
    /\ Completed("filter_by_length")
    /\ gdf.crs \in GeographicCRS
    /\ gdf_vec.crs \in ProjectedCRS
    /\ Len(gdf.geometry) >= 2
    /\ \A k \in DOMAIN gdf.geometry : ~length_ge(gdf.geometry[k], args.min_length)

\* C4: with a projected crs the filter returns exactly the geometries of length
\* >= min_length (equality included), in their relative order, points unchanged.
C4_ProjectedKeepsExactlyLongEnough ==
    (Completed("filter_by_length") /\ CrsAfterReprojection \in ProjectedCRS)
    => LET src == gdf_proj.geometry
           long == { k \in DOMAIN src : length_ge(src[k], args.min_length) }
       IN  /\ gdf.crs = CrsAfterReprojection
           /\ Len(gdf.geometry) = Cardinality(long)
           /\ \A k \in DOMAIN gdf.geometry : gdf.geometry[k] = src[Kth(long, k)]
           /\ Len(src) = Len(gdf_vec.geometry)
           /\ \A k \in DOMAIN src :
                 /\ Len(src[k]) = Len(gdf_vec.geometry[k])
                 /\ \A i \in DOMAIN src[k] :
                       src[k][i] = reproject_point(gdf_vec.geometry[k][i], gdf_vec.crs,
                                                   CrsAfterReprojection)

\* C4 witness: a projected collection from which one geometry was discarded and
\* one of length exactly min_length was retained
C4_Witness ==
    /\ Completed("filter_by_length")
    /\ gdf.crs \in ProjectedCRS
    /\ Len(gdf.geometry) < Len(gdf_proj.geometry)
    /\ \E k \in DOMAIN gdf.geometry :
          /\ length_ge(gdf.geometry[k], args.min_length)
          /\ ~length_gt(gdf.geometry[k], args.min_length)

\* C5: on the fallback path every traced vertex (col, row) becomes
\* (origin_x + col*pixel_size, origin_y - row*pixel_size), in traced order; a
\* diagonal trace (0,0)..(n,n) with pixel_size 1 (10 tenths) and origin (0,0)
\* gives the points (0,0)..(n,-n).
C5_FallbackMapping ==
    (Completed("vectorize_skeleton") /\ vec_path_taken = "fallback")
    => LET cnts == TwoOrMore(contours)
           x0 == args.origin_xy[1]
           y0 == args.origin_xy[2]
       IN  /\ Len(gdf_vec.geometry) = Len(cnts)
           /\ \A k \in DOMAIN cnts :
                 /\ Len(gdf_vec.geometry[k]) = Len(cnts[k])
                 /\ \A i \in DOMAIN cnts[k] :
                       gdf_vec.geometry[k][i] =
                          <<x0 + cnts[k][i][1] * args.pixel_size,
                            y0 - cnts[k][i][2] * args.pixel_size>>
           /\ \A n \in 1 .. MaxDiag :
                 (contours = <<Diag(n)>> /\ args.pixel_size = 10
                    /\ args.origin_xy = <<0, 0>>)
                 => gdf_vec.geometry =
                      << [i \in 1 .. n + 1 |-> <<10 * (i - 1), -10 * (i - 1)>>] >>

\* C5 witness: the longest diagonal was traced on the fallback path with
\* pixel_size 1 and origin (0,0), and its line ends at (n,-n)
C5_Witness ==
    /\ Completed("vectorize_skeleton")
    /\ vec_path_taken = "fallback"
    /\ contours = <<Diag(MaxDiag)>>
    /\ args.pixel_size = 10
    /\ args.origin_xy = <<0, 0>>
    /\ gdf_vec.geometry[1][1] = <<0, 0>>
    /\ gdf_vec.geometry[1][MaxDiag + 1] = <<10 * MaxDiag, -10 * MaxDiag>>

\* C6: on the georeferenced path every traced vertex (col, row) becomes
\* (c + col*a, f + row*e), whatever b and d are; with a=0.3, e=-0.3, c=500000,
\* f=4000000 the pixel (10,20) becomes (500003.0, 3999994.0).
C6_GeoMappingIgnoresRotation ==
    (Completed("vectorize_skeleton") /\ vec_path_taken = "geo")
    => LET cnts == TwoOrMore(contours)
           t == geo.transform
       IN  /\ Len(gdf_vec.geometry) = Len(cnts)
           /\ \A k \in DOMAIN cnts :
                 /\ Len(gdf_vec.geometry[k]) = Len(cnts[k])
                 /\ \A i \in DOMAIN cnts[k] :
                       /\ gdf_vec.geometry[k][i] =
                            <<t.c + cnts[k][i][1] * t.a, t.f + cnts[k][i][2] * t.e>>
                       /\ (t.a = 3 /\ t.e = -3 /\ t.c = 5000000 /\ t.f = 40000000
                             /\ cnts[k][i] = <<10, 20>>)
                          => gdf_vec.geometry[k][i] = <<5000030, 39999940>>

\* C6 witness: a transform with non-zero rotation terms mapped pixel (10,20)
C6_Witness ==
    /\ Completed("vectorize_skeleton")
    /\ vec_path_taken = "geo"
    /\ geo.transform.b /= 0
    /\ geo.transform.d /= 0
    /\ Len(contours) >= 1
    /\ contours[1][1] = <<10, 20>>
    /\ gdf_vec.geometry[1][1] = <<5000030, 39999940>>

\* C7: every geometry of the collection has at least 2 points, after
\* vectorize_skeleton, after filter_by_length and in what write_vectors is given,
\* on both paths; a contour of fewer than 2 vertices is dropped, vectorization
\* does not raise, and each other contour gives its geometry.
C7_AtLeastTwoPoints ==
    /\ \A g \in { gdf_vec, gdf_proj, gdf } :
          \A k \in DOMAIN g.geometry : Len(g.geometry[k]) >= 2
    /\ \A w \in DOMAIN vector_writes :
          \A k \in DOMAIN vector_writes[w].gdf.geometry :
             Len(vector_writes[w].gdf.geometry[k]) >= 2
    /\ raised /= "vectorize_skeleton"
    /\ Completed("vectorize_skeleton")
       => Len(gdf_vec.geometry) = Len(TwoOrMore(contours))

\* C7 witness: a one-vertex contour was traced between others, the run went on
\* and the vector file got the geometries of the others
C7_Witness ==
    /\ status = "done"
    /\ \E n \in 1 .. MaxDiag : contours = <<Horiz, Diag(n), Single>>
    /\ Len(gdf_vec.geometry) = 2
    /\ Len(vector_writes) = 1
    /\ Len(vector_writes[1].gdf.geometry) >= 1

C9_PartialGeoreferenceIsAbsent ==
    LET both == geo.transform /= NoTransform /\ geo.crs /= "None" IN
    /\ \A i \in DOMAIN raster_writes :
          /\ raster_writes[i].fmt = "GTiff" <=> both
          /\ raster_writes[i].fmt = "plain" <=> ~both
    /\ Completed("vectorize_skeleton")
       => /\ vec_path_taken = "geo" <=> both
          /\ vec_path_taken = "fallback" <=> ~both
          /\ both => gdf_vec.crs = geo.crs
          /\ ~both =>
               /\ gdf_vec.crs = args.epsg
               /\ \A k \in DOMAIN gdf_vec.geometry :
                     \A i \in DOMAIN gdf_vec.geometry[k] :
                        gdf_vec.geometry[k][i] =
                           <<args.origin_xy[1]
                               + TwoOrMore(contours)[k][i][1] * args.pixel_size,
                             args.origin_xy[2]
                               - TwoOrMore(contours)[k][i][2] * args.pixel_size>>

\* C9 witness: a GeoTIFF with a transform and no crs went through the run: two
\* plain mask images, the fallback mapping, the collection tagged by --epsg
C9_Witness ==
    /\ status = "done"
    /\ rasterio_ok
    /\ geo.transform /= NoTransform
    /\ geo.crs = "None"
    /\ Len(raster_writes) = 2
    /\ raster_writes[1].fmt = "plain"
    /\ raster_writes[2].fmt = "plain"
    /\ vec_path_taken = "fallback"
    /\ gdf_vec.crs = "EPSG:32633"
    /\ Len(gdf_vec.geometry) >= 1

\* C10: for a collection with no crs tag filter_by_length does not raise and
\* returns the collection unchanged, whether a reprojection EPSG is given or
\* not. The code violates it: to_crs raises on a frame without crs.
C10_UntaggedFilterNeverRaises ==
    (Called("filter_by_length") /\ gdf_vec.crs = "None")
    => /\ raised /= "filter_by_length"
       /\ gdf = gdf_vec

====
